---- MODULE Spec2Model ----
(***************************************************************************)
(* science_fair.py: students are assigned to activities over several       *)
(* periods by an integer linear program.  The script loads the ranked      *)
(* choices, builds the binary decision variables, five families of         *)
(* constraints and a weighted objective, calls the solver once, asserts    *)
(* that the status is optimal, extracts the assignments, writes the        *)
(* result rows and recomputes the satisfaction statistics.                 *)
(***************************************************************************)
EXTENDS Integers, Sequences, FiniteSets, TLC

\* ------------------------------------------------------------------ bounds
MaxStudents == 4
MaxActivities == 4
MaxPeriods == 3
MaxVariables == 24
MaxFaultyVariables == 9
MaxMinSize == 1

VARIABLES
    ACTIVITIES_LIST,      \* the activity catalog (names, in id order)
    NUM_PERIODS,
    NUM_STUDENTS,
    MIN_NUM_IN_ACTIVITY,
    MAX_NUM_IN_ACTIVITY,
    choices_full_names,   \* student id -> the four ranked activity names
    pc,                   \* position of the script
    solve_calls,          \* number of prob.solve() calls made so far
    solution_found,       \* status returned by prob.solve()
    varValue,             \* varValue[period][<<i, j>>] of the decision variables
    objective_value,      \* pulp.value(prob.objective) as printed
    assignments,          \* student id -> list of assigned activity names
    results,              \* the in-memory list of result rows
    output_rows,          \* rows written to assignment_outputs.csv
    total_got_choice,     \* rank k -> total_got_choice<k>
    total_got_3_of_4,
    raised                \* the exception that ended the script, if any

vars == <<ACTIVITIES_LIST, NUM_PERIODS, NUM_STUDENTS, MIN_NUM_IN_ACTIVITY,
          MAX_NUM_IN_ACTIVITY, choices_full_names, pc, solve_calls,
          solution_found, varValue, objective_value, assignments, results,
          output_rows, total_got_choice, total_got_3_of_4, raised>>

config == <<ACTIVITIES_LIST, NUM_PERIODS, NUM_STUDENTS, MIN_NUM_IN_ACTIVITY,
            MAX_NUM_IN_ACTIVITY, choices_full_names>>

\* ------------------------------------------------------------ step 2 and 3
CATALOG ==
    <<"100ChartPicture", "BubbleMania", "Closeto20", "Measuring",
      "MysteryNumber", "PicoPhonyZilch", "PuzzleinaBag", "RacetoaFlat",
      "Salute", "ShapeCodes", "SteppingStones">>

NUM_ACTIVITIES == Len(ACTIVITIES_LIST)

Students == 0 .. (NUM_STUDENTS - 1)
Activities == 0 .. (NUM_ACTIVITIES - 1)
Periods == 0 .. (NUM_PERIODS - 1)
Ranks == 1 .. 4

ActivityNames == {ACTIVITIES_LIST[n] : n \in 1 .. NUM_ACTIVITIES}

activities_dict ==
    [name \in ActivityNames |->
        (CHOOSE n \in 1 .. NUM_ACTIVITIES : ACTIVITIES_LIST[n] = name) - 1]

activities_dict_reverse == [n \in Activities |-> ACTIVITIES_LIST[n + 1]]

\* student_info_dicts[i]['choices']
choices == [i \in Students |->
               [k \in Ranks |-> activities_dict[choices_full_names[i][k]]]]

\* --------------------------------------------------------------- helpers
RECURSIVE Sum(_, _)
Sum(f, D) ==
    IF D = {} THEN 0
    ELSE LET d == CHOOSE e \in D : TRUE IN f[d] + Sum(f, D \ {d})

Max(S) == CHOOSE m \in S : \A n \in S : n <= m

Binary == {0, 1}


\* ------------------------------------------------- step 5: decision variables
\* decision_vars_list[period][(i, j)]: one binary variable per period,
\* student and activity.  A valuation of the variables of one student is
\* a schedule sched[period][j]; a valuation of all of them is x[i][period][j].
decision_vars(x) ==
    [p \in Periods |-> [ij \in Students \X Activities |-> x[ij[1]][p][ij[2]]]]

\* ------------------------------------------------------ step 6: constraints
\* a student may also sit out a period
Constraint1_AtMostOne(row) == Sum(row, Activities) <= 1

\* CONSTRAINT 1, for one period and one student: row[j] is the variable (i, j)
Constraint1(row) == Sum(row, Activities) = 1

\* a student may attend an activity twice
Constraint2_AtMostTwo(sched) ==
    \A j \in Activities : Sum([p \in Periods |-> sched[p][j]], Periods) <= 2

\* CONSTRAINT 2, for one student
Constraint2(sched) ==
    \A j \in Activities : Sum([p \in Periods |-> sched[p][j]], Periods) <= 1

\* the minimum is not enforced
Constraint3_NoMinimum(x) ==
    \A p \in Periods : \A j \in Activities :
        Sum([i \in DOMAIN x |-> x[i][p][j]], DOMAIN x) >= 0

\* CONSTRAINT 3, over the students of x
Constraint3(x) ==
    \A p \in Periods : \A j \in Activities :
        Sum([i \in DOMAIN x |-> x[i][p][j]], DOMAIN x) >= MIN_NUM_IN_ACTIVITY

\* the maximum is off by one
Constraint4_OneOver(x) ==
    \A p \in Periods : \A j \in Activities :
        Sum([i \in DOMAIN x |-> x[i][p][j]], DOMAIN x) <= MAX_NUM_IN_ACTIVITY + 1

\* CONSTRAINT 4, over the students of x
Constraint4(x) ==
    \A p \in Periods : \A j \in Activities :
        Sum([i \in DOMAIN x |-> x[i][p][j]], DOMAIN x) <= MAX_NUM_IN_ACTIVITY

\* at least three instead of exactly three
Constraint5_AtLeastThree(c, sched) ==
    Sum([pk \in Periods \X Ranks |-> sched[pk[1]][c[pk[2]]]], Periods \X Ranks) >= 3

\* CONSTRAINT 5, for one student with choice list c: lpSum adds one term per
\* period and per rank position, so a repeated activity is counted once per
\* position that names it
Constraint5(c, sched) ==
    Sum([pk \in Periods \X Ranks |-> sched[pk[1]][c[pk[2]]]], Periods \X Ranks) = 3

\* ------------------------------------------------------ objective function
\* every rank is worth the same
Weight_Flat(k) == 1

Weight(k) == CASE k = 1 -> 1000 [] k = 2 -> 100 [] k = 3 -> 10 [] k = 4 -> 1

\* the loops over the periods, the students and the four choices
Objective(dv) ==
    LET c == choices
    IN  Sum([p \in Periods |->
                Sum([i \in Students |->
                        Sum([k \in Ranks |-> dv[p][<<i, c[i][k]>>] * Weight(k)], Ranks)],
                    Students)], Periods)

\* ------------------------------------------------- step 7: the solver
\* The valuations that satisfy every constraint, enumerated student by
\* student: the rows allowed by constraint 1, the schedules of one student
\* allowed by constraints 2 and 5, then the combinations allowed by the
\* capacity constraints 4 and 3.
Rows == {row : row \in {r \in [Activities -> Binary] : Constraint1(r)}}

StudentSchedules(i) ==
    LET c == choices[i]
    IN  {sched \in [Periods -> Rows] : Constraint2(sched) /\ Constraint5(c, sched)}

RECURSIVE Assemble(_)
Assemble(k) ==
    LET mine == StudentSchedules(k - 1)
        ext  == IF k = 1
                THEN {[i \in {0} |-> sched] : sched \in mine}
                ELSE {[i \in 0 .. (k - 1) |-> IF i = k - 1 THEN sched ELSE part[i]] :
                          part \in Assemble(k - 1), sched \in mine}
    IN  {x \in ext : Constraint4(x)}

FeasibleSolutions ==
    {decision_vars(x) : x \in {y \in Assemble(NUM_STUDENTS) : Constraint3(y)}}

OptimalSolutions ==
    LET F == FeasibleSolutions
    IN  IF F = {} THEN {}
        ELSE LET best == Max({Objective(dv) : dv \in F})
             IN  {dv \in F : Objective(dv) = best}

\* pulp status codes
LpStatusOptimal == 1
LpStatusNotSolved == 0
LpStatusInfeasible == -1
LpStatusUndefined == -3
ErrorStatuses == {LpStatusNotSolved, LpStatusUndefined}

\* varValue of a variable the solver has not set (None)
None == -1
NoValues == [p \in Periods |-> [ij \in Students \X Activities |-> None]]


\* ---------------------------------------------------------------- Init
\* The input rows.  Every activity has the same capacity bounds, so the
\* first student's list is taken in first-occurrence order (its first
\* choice is activity 0, a new activity is the next unused id); repeated
\* activities are allowed.  Every other student's list is that list with
\* the activities renamed: moved along the catalog by t places (t < n), or
\* with the first two activities exchanged (t = n).  Students are
\* interchangeable, so the rows are taken in nondecreasing order of t.
IsFirstOccurrenceOrder(c) ==
    /\ c[1] = 0
    /\ \A k \in 2 .. 4 : \E h \in 1 .. (k - 1) : c[k] <= c[h] + 1

Renamed(a, t, n) ==
    IF t < n THEN (a + t) % n
    ELSE IF a = 0 THEN 1 % n
    ELSE IF a = 1 THEN 0
    ELSE a

InputRows(n, students) ==
    {[i \in students |-> [k \in Ranks |-> CATALOG[Renamed(base[k], t[i], n) + 1]]] :
        base \in {c \in [Ranks -> 0 .. (n - 1)] : IsFirstOccurrenceOrder(c)},
        t \in {f \in [students -> 0 .. n] :
                  /\ f[0] = 0
                  /\ \A i \in students : i > 0 => f[i - 1] <= f[i]}}

\* The problem is built and nothing is solved yet: no status, no values, no
\* assignments, no rows, and the counters of the sanity check at zero.
Built ==
    /\ pc = "Built"
    /\ solve_calls = 0
    /\ solution_found = LpStatusNotSolved
    /\ varValue = NoValues
    /\ objective_value = 0
    /\ assignments = [i \in Students |-> <<>>]
    /\ results = <<>>
    /\ output_rows = <<>>
    /\ total_got_choice = [k \in Ranks |-> 0]
    /\ total_got_3_of_4 = 0
    /\ raised = ""

\* The state after steps 1 to 6: the input rows are loaded, the constants
\* are set and the problem is built.
Init ==
    /\ \E n \in 1 .. MaxActivities :
          /\ ACTIVITIES_LIST = SubSeq(CATALOG, 1, n)
          /\ NUM_PERIODS \in 1 .. MaxPeriods
          /\ NUM_STUDENTS \in 1 .. MaxStudents
          /\ n * NUM_PERIODS * NUM_STUDENTS <= MaxVariables
          /\ choices_full_names \in InputRows(n, 0 .. (NUM_STUDENTS - 1))
    /\ MIN_NUM_IN_ACTIVITY \in 0 .. MaxMinSize
    /\ MAX_NUM_IN_ACTIVITY \in {1, NUM_STUDENTS}
    /\ Built

\* ------------------------------------------------------- step 7: solve
\* prob.solve(): one call.  The solver answers optimal with any optimal
\* valuation when one exists, infeasible when none exists, or fails with
\* another status.
Solve ==
    /\ pc = "Built"
    /\ pc' = "Solved"
    /\ solve_calls' = solve_calls + 1
    /\ LET O == OptimalSolutions
       IN  \/ \E dv \in O :
                 /\ solution_found' = LpStatusOptimal
                 /\ varValue' = dv
           \/ /\ O = {}
              /\ solution_found' = LpStatusInfeasible
              /\ varValue' = NoValues
           \/ /\ solution_found' \in ErrorStatuses
              /\ varValue' = NoValues
    /\ UNCHANGED <<config, objective_value, assignments, results, output_rows,
                   total_got_choice, total_got_3_of_4, raised>>

\* the message of the assertion, whatever the status was
AssertionMessage(status) == "AssertionError: solution not found"

\* a failed solve is tried again instead of ending the run
AssertSolutionFound_Retries ==
    /\ pc = "Solved"
    /\ IF solution_found = 1
       THEN /\ pc' = "Optimal"
            /\ objective_value' = Objective(varValue)
       ELSE /\ pc' = "Built"
            /\ objective_value' = objective_value
    /\ UNCHANGED <<config, solve_calls, solution_found, varValue, assignments,
                   results, output_rows, total_got_choice, total_got_3_of_4, raised>>

\* assert solution_found == 1, "solution not found"; print the objective
AssertSolutionFound ==
    /\ pc = "Solved"
    /\ IF solution_found = 1
       THEN /\ pc' = "Optimal"
            /\ objective_value' = Objective(varValue)
            /\ raised' = raised
       ELSE /\ pc' = "Failed"
            /\ raised' = AssertionMessage(solution_found)
            /\ objective_value' = objective_value
    /\ UNCHANGED <<config, solve_calls, solution_found, varValue, assignments,
                   results, output_rows, total_got_choice, total_got_3_of_4>>

\* ------------------------------------------------------ step 8: extract
RECURSIVE Appended(_, _, _)
\* what the loop over j appends for period p and student i, from activity j on
Appended(p, i, j) ==
    IF j >= NUM_ACTIVITIES THEN <<>>
    ELSE (IF varValue[p][<<i, j>>] = 1 THEN <<activities_dict_reverse[j]>> ELSE <<>>)
         \o Appended(p, i, j + 1)

RECURSIVE Extracted(_, _)
\* student i's 'assignments' after the periods from p on have been read
Extracted(i, p) ==
    IF p >= NUM_PERIODS THEN <<>>
    ELSE Appended(p, i, 0) \o Extracted(i, p + 1)

Extract ==
    /\ pc = "Optimal"
    /\ pc' = "Extracted"
    /\ assignments' = [i \in Students |-> assignments[i] \o Extracted(i, 0)]
    /\ UNCHANGED <<config, solve_calls, solution_found, varValue, objective_value,
                   results, output_rows, total_got_choice, total_got_3_of_4, raised>>

\* the row of student i: the four choices, then the three unpacked assignments
\* (the name column is left out)
Row(i) == choices_full_names[i] \o assignments[i]

\* assignment1, assignment2, assignment3 = assignments
Unpacks(i) == Len(assignments[i]) = 3

\* the results loop, then write_list_to_csv
WriteResults ==
    /\ pc = "Extracted"
    /\ IF \A i \in Students : Unpacks(i)
       THEN /\ results' = [n \in 1 .. NUM_STUDENTS |-> Row(n - 1)]
            /\ output_rows' = results'
            /\ pc' = "Written"
            /\ raised' = raised
       ELSE LET bad == CHOOSE i \in Students :
                          /\ ~Unpacks(i)
                          /\ \A h \in Students : h < i => Unpacks(h)
            IN  /\ results' = [n \in 1 .. bad |-> Row(n - 1)]
                /\ output_rows' = output_rows
                /\ pc' = "Aborted"
                /\ raised' = "ValueError"
    /\ UNCHANGED <<config, solve_calls, solution_found, varValue, objective_value,
                   assignments, total_got_choice, total_got_3_of_4>>

\* --------------------------------------------------- step 9: sanity check
InList(name, list) == \E n \in 1 .. Len(list) : list[n] = name

got_choice(i, k) == IF InList(choices_full_names[i][k], assignments[i]) THEN 1 ELSE 0

got_3_of_4(i) ==
    IF got_choice(i, 1) + got_choice(i, 2) + got_choice(i, 3) + got_choice(i, 4) = 3
    THEN 1 ELSE 0

SanityCheck ==
    /\ pc = "Written"
    /\ pc' = "Validated"
    /\ total_got_choice' =
           [k \in Ranks |->
               total_got_choice[k] + Sum([i \in Students |-> got_choice(i, k)], Students)]
    /\ total_got_3_of_4' =
           total_got_3_of_4 + Sum([i \in Students |-> got_3_of_4(i)], Students)
    /\ UNCHANGED <<config, solve_calls, solution_found, varValue, objective_value,
                   assignments, results, output_rows, raised>>

Next ==
    \/ Solve
    \/ AssertSolutionFound
    \/ Extract
    \/ WriteResults
    \/ SanityCheck

Spec == Init /\ [][Next]_vars


\* ------------------------------------------- a solver that breaks its contract
\* The same script run against a solver that reports optimal but may return
\* any 0/1 values, whether or not they satisfy the constraints.
InitFaulty ==
    /\ Init
    /\ NUM_PERIODS = 3
    /\ NUM_ACTIVITIES * NUM_PERIODS * NUM_STUDENTS <= MaxFaultyVariables

SolveFaulty ==
    /\ pc = "Built"
    /\ pc' = "Solved"
    /\ solve_calls' = solve_calls + 1
    /\ solution_found' = LpStatusOptimal
    /\ varValue' \in [Periods -> [Students \X Activities -> Binary]]
    /\ UNCHANGED <<config, objective_value, assignments, results, output_rows,
                   total_got_choice, total_got_3_of_4, raised>>

NextFaulty ==
    \/ SolveFaulty
    \/ AssertSolutionFound
    \/ Extract
    \/ WriteResults
    \/ SanityCheck

SpecFaulty == InitFaulty /\ [][NextFaulty]_vars

\* ----------------------------------------------- a roster with tied optima
\* Twelve students and twelve activities (the catalog and one more), one
\* student per activity and period.  The feasible set is too large to
\* enumerate, so the optimal valuations used here are certified instead: a
\* valuation that satisfies every constraint and whose objective reaches an
\* upper bound on the objective of every feasible valuation is optimal.
TwelveChoices ==
    <<<<2, 0, 10, 11>>, <<7, 9, 0, 1>>, <<9, 0, 1, 2>>, <<4, 8, 2, 3>>,
      <<8, 7, 3, 4>>, <<3, 10, 4, 5>>, <<3, 2, 5, 6>>, <<10, 1, 6, 7>>,
      <<6, 5, 7, 8>>, <<11, 1, 8, 9>>, <<4, 0, 9, 10>>, <<5, 6, 11, 4>>>>

InitTwelve ==
    /\ ACTIVITIES_LIST = Append(CATALOG, "TangramPuzzles")
    /\ NUM_PERIODS = 3
    /\ NUM_STUDENTS = Len(TwelveChoices)
    /\ MIN_NUM_IN_ACTIVITY = 1
    /\ MAX_NUM_IN_ACTIVITY = 1
    /\ choices_full_names =
          [i \in Students |->
              [k \in Ranks |-> ACTIVITIES_LIST[TwelveChoices[i + 1][k] + 1]]]
    /\ Built

\* every constraint of step 6, on a valuation x[i][period][j]
Feasible(x) ==
    /\ \A i \in Students :
          /\ \A p \in Periods : Constraint1(x[i][p])
          /\ Constraint2(x[i])
          /\ Constraint5(choices[i], x[i])
    /\ Constraint3(x)
    /\ Constraint4(x)

\* the objective terms of one student with choice list c
StudentValue(c, sched) ==
    Sum([pk \in Periods \X Ranks |-> sched[pk[1]][c[pk[2]]] * Weight(pk[2])],
        Periods \X Ranks)

\* what a schedule pays when a place in activity j costs price[j]
Charge(price, sched) ==
    Sum([p \in Periods |->
            Sum([j \in Activities |-> sched[p][j] * price[j]], Activities)], Periods)

\* An upper bound on the objective of every feasible valuation, for any
\* prices: the objective is the sum over the students of value minus charge,
\* plus the charges, and constraints 3 and 4 bound the places taken in
\* every activity and period.
LagrangeBound(price) ==
    Sum([i \in Students |->
            Max({StudentValue(choices[i], sched) - Charge(price, sched) :
                    sched \in StudentSchedules(i)})], Students)
    + NUM_PERIODS *
         Sum([j \in Activities |->
                 IF price[j] >= 0 THEN price[j] * MAX_NUM_IN_ACTIVITY
                 ELSE price[j] * MIN_NUM_IN_ACTIVITY], Activities)

Prices == [j \in Activities |-> IF j < 11 THEN 99 - 9 * j ELSE 0]

\* two schedules of the roster: student i's activity in each period
WithoutThirdChoices ==
    <<<<2, 0, 11>>, <<7, 9, 1>>, <<9, 2, 0>>, <<4, 8, 3>>, <<8, 7, 4>>,
      <<3, 10, 5>>, <<6, 3, 2>>, <<10, 1, 7>>, <<5, 6, 8>>, <<1, 11, 9>>,
      <<0, 4, 10>>, <<11, 5, 6>>>>

WithThirdChoices ==
    <<<<2, 10, 11>>, <<7, 9, 0>>, <<9, 0, 1>>, <<4, 8, 2>>, <<8, 7, 3>>,
      <<10, 3, 4>>, <<3, 2, 5>>, <<1, 6, 10>>, <<6, 5, 7>>, <<11, 1, 8>>,
      <<0, 4, 9>>, <<5, 11, 6>>>>

\* the valuation of a schedule with its periods reordered
Valuation(s, order) ==
    [i \in Students |-> [p \in Periods |-> [j \in Activities |->
        IF s[i + 1][order[p] + 1] = j THEN 1 ELSE 0]]]

CertifiedOptimal ==
    LET bound == LagrangeBound(Prices)
        known == {Valuation(s, order) :
                     s \in {WithoutThirdChoices, WithThirdChoices},
                     order \in Permutations(Periods)}
    IN  {decision_vars(x) :
            x \in {y \in known : Feasible(y) /\ Objective(decision_vars(y)) = bound}}

\* the problem is small enough for the feasible set to be enumerated
Enumerable == NUM_ACTIVITIES * NUM_PERIODS * NUM_STUDENTS <= MaxVariables

\* prob.solve() on a problem that is not enumerated: the solver answers
\* optimal with one of the valuations certified optimal, or fails.
SolveCertified ==
    /\ pc = "Built"
    /\ ~Enumerable
    /\ pc' = "Solved"
    /\ solve_calls' = solve_calls + 1
    /\ \/ \E dv \in CertifiedOptimal :
              /\ solution_found' = LpStatusOptimal
              /\ varValue' = dv
       \/ /\ solution_found' \in ErrorStatuses
          /\ varValue' = NoValues
    /\ UNCHANGED <<config, objective_value, assignments, results, output_rows,
                   total_got_choice, total_got_3_of_4, raised>>

\* the runs with three periods, the number the results loop unpacks
InitTied ==
    \/ Init /\ NUM_PERIODS = 3
    \/ InitTwelve

NextTied ==
    \/ Enumerable /\ Solve
    \/ SolveCertified
    \/ AssertSolutionFound
    \/ Extract
    \/ WriteResults
    \/ SanityCheck

SpecTied == InitTied /\ [][NextTied]_vars

\* ================================================================ claims
Solved == pc # "Built"
PastExtraction == pc \in {"Extracted", "Written", "Aborted", "Validated"}

OnesOf(p, i) == {j \in Activities : varValue[p][<<i, j>>] = 1}

\* the set of rank positions of student i whose activity is among the assigned
RanksGot(i) == {k \in Ranks : InList(choices_full_names[i][k], assignments[i])}

\* number of students whose assignment for period p is the activity named name
Attendance(p, name) ==
    Cardinality({i \in Students :
                    Len(assignments[i]) > p /\ assignments[i][p + 1] = name})

\* C1: whenever the solver reports optimal, every student has exactly one
\* activity with value 1 in every period, and after the extraction loop the
\* student's 'assignments' list has exactly NUM_PERIODS entries, the p-th
\* being that activity of period p.
C1_OneActivityPerPeriod ==
    /\ solution_found = LpStatusOptimal =>
          \A p \in Periods : \A i \in Students : Cardinality(OnesOf(p, i)) = 1
    /\ PastExtraction =>
          \A i \in Students :
             /\ Len(assignments[i]) = NUM_PERIODS
             /\ \A p \in Periods :
                   OnesOf(p, i) = {activities_dict[assignments[i][p + 1]]}

C1_Witness ==
    /\ pc = "Extracted"
    /\ NUM_PERIODS = 3
    /\ NUM_STUDENTS = 2
    /\ assignments[0] # assignments[1]

\* C2: whenever the solver reports optimal, exactly 3 of the 4 rank positions
\* of every student name an activity the student is assigned, repeated
\* activities included, and the sanity check counts every student in
\* total_got_3_of_4.
C2_ThreeOfFour ==
    /\ PastExtraction => \A i \in Students : Cardinality(RanksGot(i)) = 3
    /\ pc = "Validated" => total_got_3_of_4 = NUM_STUDENTS

C2_Witness ==
    /\ pc = "Validated"
    /\ total_got_3_of_4 = 2
    /\ \E i \in Students : choices_full_names[i][1] = choices_full_names[i][3]

\* C3: whenever the solver reports optimal, in every period every activity of
\* the catalog, listed by a student or not, is attended by at least
\* MIN_NUM_IN_ACTIVITY and at most MAX_NUM_IN_ACTIVITY students.
C3_Capacity ==
    PastExtraction =>
       \A p \in Periods : \A name \in ActivityNames :
          /\ Attendance(p, name) >= MIN_NUM_IN_ACTIVITY
          /\ Attendance(p, name) <= MAX_NUM_IN_ACTIVITY

\* an activity nobody listed is attended in every period, under a minimum
C3_Witness ==
    /\ pc = "Extracted"
    /\ MIN_NUM_IN_ACTIVITY = 1
    /\ \E name \in ActivityNames :
          /\ \A i \in Students : \A k \in Ranks : choices_full_names[i][k] # name
          /\ \A p \in Periods : Attendance(p, name) >= 1

\* C4: whenever the solver reports optimal, no student's 'assignments' list
\* contains an activity twice.
C4_NoRepeat ==
    PastExtraction =>
       \A i \in Students :
          \A m \in 1 .. Len(assignments[i]) : \A n \in 1 .. Len(assignments[i]) :
             m # n => assignments[i][m] # assignments[i][n]

C4_Witness ==
    /\ pc = "Validated"
    /\ NUM_STUDENTS = 2
    /\ \E i \in Students : choices_full_names[i][1] = choices_full_names[i][2]

\* C5: the stages run once each, in the order Built, Solved, Extracted,
\* Validated; when the one solver call returns a status other than optimal
\* the run ends in Failed, from which no step is taken, with no assignment,
\* no result row, no statistics and no second solver call.
StageOrder ==
    /\ pc = "Built" => pc' = "Solved"
    /\ pc = "Solved" => pc' = IF solution_found = LpStatusOptimal THEN "Optimal" ELSE "Failed"
    /\ pc = "Optimal" => pc' = "Extracted"
    /\ pc = "Extracted" => pc' \in {"Written", "Aborted"}
    /\ pc = "Written" => pc' = "Validated"
    /\ pc \notin {"Failed", "Aborted", "Validated"}

NothingProduced ==
    /\ \A i \in Students : assignments[i] = <<>>
    /\ results = <<>>
    /\ output_rows = <<>>
    /\ \A k \in Ranks : total_got_choice[k] = 0
    /\ total_got_3_of_4 = 0

C5_Pipeline ==
    /\ [][StageOrder]_vars
    /\ [](solve_calls <= 1)
    /\ []((Solved /\ solution_found # LpStatusOptimal) =>
             /\ pc \in {"Solved", "Failed"}
             /\ NothingProduced)

C5_Witness ==
    /\ pc = "Failed"
    /\ solution_found = LpStatusUndefined
    /\ NUM_PERIODS = 3

\* C6 as stated: in scenario A (2 activities, min 1, max 2, 1 period, 2
\* students choosing among the 2 activities, here even each ranking both)
\* the solver, unless it fails, reports optimal, and every student is
\* assigned one of their top-3 choices.
ScenarioA ==
    /\ NUM_ACTIVITIES = 2
    /\ MIN_NUM_IN_ACTIVITY = 1
    /\ MAX_NUM_IN_ACTIVITY = 2
    /\ NUM_PERIODS = 1
    /\ NUM_STUDENTS = 2

InTopThree(i, name) == \E k \in 1 .. 3 : choices_full_names[i][k] = name

RanksBoth(i) == {choices_full_names[i][k] : k \in Ranks} = ActivityNames

C6_ScenarioAOptimal ==
    (/\ ScenarioA
     /\ \A i \in Students : RanksBoth(i)
     /\ Solved
     /\ solution_found \notin ErrorStatuses) =>
       /\ solution_found = LpStatusOptimal
       /\ PastExtraction =>
             \A i \in Students : Len(assignments[i]) = 1 /\ InTopThree(i, assignments[i][1])

\* the activities student i names in exactly three rank positions
ThriceNamed(i) ==
    {name \in ActivityNames :
        Cardinality({k \in Ranks : choices_full_names[i][k] = name}) = 3}

ScenarioAFeasible ==
    /\ \A i \in Students : ThriceNamed(i) # {}
    /\ ThriceNamed(0) # ThriceNamed(1)

\* C6 amended: in scenario A the solver, unless it fails, reports optimal
\* exactly when each student names one activity in exactly three rank
\* positions and the two students' thrice-named activities differ, and
\* infeasible otherwise; when it reports optimal every student is assigned
\* the thrice-named activity, which is one of their top-3 choices.
C6_ScenarioAAmended ==
    (ScenarioA /\ Solved /\ solution_found \notin ErrorStatuses) =>
       /\ solution_found = (IF ScenarioAFeasible THEN LpStatusOptimal ELSE LpStatusInfeasible)
       /\ PastExtraction =>
             \A i \in Students :
                /\ Len(assignments[i]) = 1
                /\ ThriceNamed(i) = {assignments[i][1]}
                /\ InTopThree(i, assignments[i][1])

C6_Witness ==
    /\ ScenarioA
    /\ pc = "Extracted"
    /\ assignments[0] # assignments[1]
    /\ choices_full_names[0][4] = assignments[0][1]

\* C7: when NUM_ACTIVITIES * MIN_NUM_IN_ACTIVITY exceeds NUM_STUDENTS *
\* NUM_PERIODS the solver never reports optimal: unless it fails its status
\* is infeasible, and the run ends at the 'solution not found' assertion.
OverMinimum == NUM_ACTIVITIES * MIN_NUM_IN_ACTIVITY > NUM_STUDENTS * NUM_PERIODS

C7_OverMinimumInfeasible ==
    (OverMinimum /\ Solved) =>
       /\ solution_found # LpStatusOptimal
       /\ solution_found \notin ErrorStatuses => solution_found = LpStatusInfeasible
       /\ pc \in {"Solved", "Failed"}
       /\ pc = "Failed" => raised = "AssertionError: solution not found"

C7_Witness ==
    /\ OverMinimum
    /\ NUM_STUDENTS = 2
    /\ pc = "Failed"
    /\ solution_found = LpStatusInfeasible

\* the optimal valuations of the input at hand
KnownOptimal == IF Enumerable THEN OptimalSolutions ELSE CertifiedOptimal

\* the number of students who attend their rank-k choice under dv, which is
\* what the sanity check counts in total_got_choice<k> after extracting dv
RankTotal(dv, k) ==
    Cardinality({i \in Students :
                    \E p \in Periods : dv[p][<<i, choices[i][k]>>] = 1})

WeightedTotals(t) == Sum([k \in Ranks |-> Weight(k) * t[k]], Ranks)

\* C8 as stated: after a run, every optimal solution of the same input has
\* the run's objective value and the run's total_got_choice1 to
\* total_got_choice4.
C8_SameCounts ==
    pc = "Validated" =>
       \A dv \in KnownOptimal :
          /\ Objective(dv) = objective_value
          /\ \A k \in Ranks : RankTotal(dv, k) = total_got_choice[k]

\* C8 amended: after a run, every optimal solution of the same input has the
\* run's objective value, which is 1000, 100, 10 and 1 times the four
\* per-rank counts of either; the counts themselves are the run's whenever
\* there are at most 9 students, so that no count reaches 10.
C8_SameObjective ==
    pc = "Validated" =>
       /\ objective_value = WeightedTotals(total_got_choice)
       /\ \A dv \in KnownOptimal :
             /\ Objective(dv) = objective_value
             /\ Objective(dv) = WeightedTotals([k \in Ranks |-> RankTotal(dv, k)])
             /\ NUM_STUDENTS <= 9 =>
                   \A k \in Ranks : RankTotal(dv, k) = total_got_choice[k]

\* a run of two or more students that has another optimal solution
C8_Witness ==
    /\ pc = "Validated"
    /\ NUM_STUDENTS >= 2
    /\ NUM_STUDENTS <= 9
    /\ total_got_choice[4] >= 1
    /\ \E dv \in OptimalSolutions : dv # varValue

\* C9: a run that failed because the solver returned an error status shows
\* a failure different from the one shown when the status is infeasible.
C9_ErrorDistinctFromInfeasible ==
    (pc = "Failed" /\ solution_found \in ErrorStatuses) =>
       raised # AssertionMessage(LpStatusInfeasible)

\* C10: when the solver reports optimal but some student has no activity or
\* more than one activity with value 1 in some period, an error is raised
\* and no output row is written for that student.
BrokenRow(i) == \E p \in Periods : Cardinality(OnesOf(p, i)) # 1

C10_BrokenRowsRejected ==
    (solution_found = LpStatusOptimal /\ pc \in {"Written", "Aborted", "Validated"}) =>
       \A i \in Students :
          BrokenRow(i) => (raised # "" /\ Len(output_rows) < i + 1)

====
